---- MODULE Spec2Model ----
(***************************************************************************)
(* The trick / catch / grind state machine of SkateboardApp (src/app.py).  *)
(*                                                                         *)
(* Times are integers in milliseconds, the unit of pygame.time.get_ticks() *)
(* (the code divides by 1000.0 and compares seconds; every duration of the *)
(* code is a whole number of milliseconds).  One step of the model is one  *)
(* iteration of the loop of run(): _update_time, _handle_events and        *)
(* _update_game_state, executed in the code's order on a record `self`     *)
(* that holds the fields of the application object.                        *)
(***************************************************************************)
EXTENDS Integers, Sequences, FiniteSets, TLC

VARIABLES
    self,             \* the fields of the SkateboardApp object
    get_ticks,        \* pygame.time.get_ticks(): the wall clock, in ms
    held_ms,          \* history: for how long the frames have sampled the
                      \*   current non-center value of self.hands without
                      \*   a break (counted up to trick_hold_duration; 0
                      \*   while the hands are center)
    flights_in_hold,  \* history: flights started during that unbroken hold
                      \*   (counted up to 2)
    flights_started,  \* history: number of flights started so far
    ground_frames,    \* history: number of frames that ended on the ground
    window_frames,    \* history: ... that ended in the grind window
    grind_frames,     \* history: ... that ended grinding
    rails_moved_at,   \* history: self._current_time of the last frame that
                      \*   changed the position of a rail (0: none so far)
    rendered          \* the last call of get_sprite_position: its arguments
                      \*   (in half degrees) and the angle_key it computed
                      \*   (in degrees)

vars == <<self, get_ticks, held_ms, flights_in_hold, flights_started,
          ground_frames, window_frames, grind_frames, rails_moved_at,
          rendered>>

(***************************************************************************)
(* Bounds of the model.                                                    *)
(***************************************************************************)
\* duration of one frame (clock.tick(60) lets a frame last 16 ms or more)
FrameMs == 25
\* value of get_ticks() when the constructor returns
StartupMs == 6000
\* the clock value after which no further frame is explored
MaxTime == 7700
\* a run goes on until it has started more than MaxFlights flights
MaxFlights == 1
\* the number of frames a run may end on the ground, in the grind window
\* and grinding
MaxGroundFrames == 10
MaxWindowFrames == 8
MaxGrindFrames == 13

(***************************************************************************)
(* Program constants (durations in ms).                                    *)
(***************************************************************************)
animation_speed == 50
move_speed_nominal == 30
move_update_interval == 150
skateboard_x_offset == 500
trick_hold_duration == 200
catch_window_delay == 200
catch_window_duration == 1000
death_duration == 200
grind_window_duration == 1000
min_grind_duration == 300
grind_hold_duration == 150
_time_update_interval == 16
rail_spawn_interval_min == 3000
rail_spawn_interval_max == 6000
rail_stretch == 6
rail_collision_buffer == 80
rail_collision_tolerance_y == 120
rail_end_tolerance_y == 100
rail_end_margin == 50

(***************************************************************************)
(* The environment the constructor reads: display mode and loaded assets.  *)
(***************************************************************************)
display_width == 1920
display_height == 1080
\* the rail image after _load_rail_image scaled it
rail_image_width == 200
rail_image_height == 20

None == "None"
CENTER == <<"center", "center">>

Min(S) == CHOOSE x \in S : \A y \in S : x <= y
Max2(a, b) == IF a >= b THEN a ELSE b
Min2(a, b) == IF a <= b THEN a ELSE b
Range(seq) == {seq[i] : i \in DOMAIN seq}

(***************************************************************************)
(* Static tables of __init__.  A table is a sequence in the insertion      *)
(* order of the dict, so that a lookup returns the first match as the      *)
(* code's iteration over .items() does.                                    *)
(***************************************************************************)
trick_map == <<
    [name |-> "BS-Shuv-It",        hands |-> <<"down", "center">>],
    [name |-> "FS-Shuv-It",        hands |-> <<"up", "center">>],
    [name |-> "Nollie BS-Shuv-It", hands |-> <<"center", "down">>],
    [name |-> "Nollie FS-Shuv-It", hands |-> <<"center", "up">>],
    [name |-> "Kickflip",          hands |-> <<"left", "down">>],
    [name |-> "Heelflip",          hands |-> <<"left", "up">>],
    [name |-> "Nollie Kickflip",   hands |-> <<"down", "right">>],
    [name |-> "Nollie Heelflip",   hands |-> <<"up", "right">>],
    [name |-> "Varial Kickflip",   hands |-> <<"down", "down">>],
    [name |-> "Varial Heelflip",   hands |-> <<"up", "up">>],
    [name |-> "Inward Heelflip",   hands |-> <<"down", "up">>],
    [name |-> "Hardflip",          hands |-> <<"up", "down">>] >>

grind_trick_map == <<
    [name |-> "Nose Grind",           hands |-> <<"left", "left">>],
    [name |-> "5-0 Grind",            hands |-> <<"right", "right">>],
    [name |-> "Tailslide",            hands |-> <<"up", "up">>],
    [name |-> "Noseslide",            hands |-> <<"down", "down">>],
    [name |-> "Crooked Grind",        hands |-> <<"down", "right">>],
    [name |-> "Overcrooked Grind",    hands |-> <<"up", "right">>],
    [name |-> "Smith Grind",          hands |-> <<"left", "down">>],
    [name |-> "Feeble Grind",         hands |-> <<"left", "up">>],
    [name |-> "Frontside Boardslide", hands |-> <<"down", "up">>],
    [name |-> "Backside Boardslide",  hands |-> <<"up", "down">>],
    [name |-> "50-50 Grind",          hands |-> <<"right", "left">>],
    [name |-> "Salad Grind",          hands |-> <<"right", "up">>],
    [name |-> "Suski Grind",          hands |-> <<"right", "down">>] >>

\* animation_loops is empty: every animation takes the default, looping
animation_loops == [t \in {} |-> TRUE]

shuv_tricks == {"BS-Shuv-It", "FS-Shuv-It", "Nollie BS-Shuv-It", "Nollie FS-Shuv-It"}
flip_tricks == {"Kickflip", "Heelflip", "Nollie Kickflip", "Nollie Heelflip"}
varial_tricks == {"Varial Kickflip", "Varial Heelflip", "Hardflip", "Inward Heelflip"}

\* "Frames:" of each animation's metadata file, as the generator writes it
\* (the length of the trick's sprite sequence)
generated_frames ==
    [t \in {"BS-Shuv-It", "FS-Shuv-It", "Kickflip", "Heelflip"} |-> 25] @@
    [t \in {"Varial Kickflip", "Varial Heelflip", "Hardflip", "Inward Heelflip"} |-> 13] @@
    [t \in {"Ollie", "Nollie"} |-> 5]

\* the tricks _load_animations found a sprite map for
animation_maps == DOMAIN generated_frames

\* _load_animations: shuv and flip tricks use every other frame
animation_metadata ==
    [t \in animation_maps |->
        [frames |-> IF t \in shuv_tricks \/ t \in flip_tricks
                    THEN (generated_frames[t] + 1) \div 2
                    ELSE generated_frames[t]]]

\* first match of a table for a hand combination, None without a match
first_match(table, hands) ==
    LET hit == {i \in DOMAIN table : table[i].hands = hands}
    IN  IF hit = {} THEN None ELSE table[Min(hit)].name

(***************************************************************************)
(* Inputs.                                                                 *)
(***************************************************************************)
KeyNames == {"w", "a", "s", "d", "i", "j", "k", "l"}
Pressed(S) == [k \in KeyNames |-> k \in S]

\* the key states _handle_events can leave in keys_pressed after a frame's
\* KEYDOWN / KEYUP events
KeySnapshots ==
    { Pressed({}),               \* (center, center)
      Pressed({"a", "k"}),       \* (left, down): Kickflip, Smith Grind
      Pressed({"a", "j"}) }      \* (left, left): no aerial trick, Nose Grind

\* the values random.uniform(*rail_spawn_interval) is drawn from
SpawnDraws == {rail_spawn_interval_min, rail_spawn_interval_max}

(***************************************************************************)
(* The object after __init__ on a display of the given size, with the      *)
(* given scaled rail image.                                                *)
(***************************************************************************)
__init__(display, rail_image) ==
    [ display_width           |-> display.width,
      display_height          |-> display.height,
      _display_center_x       |-> display.width \div 2,
      _display_center_y       |-> display.height \div 2,
      _skateboard_center_x    |-> display.width \div 2 - skateboard_x_offset,
      rail_image              |-> rail_image,
      animation_loops         |-> animation_loops,
      _current_time           |-> 0,
      _last_time_update       |-> 0,
      keys_pressed            |-> Pressed({}),
      hands                   |-> CENTER,
      last_hand_combination   |-> CENTER,
      trick_start_time        |-> 0,
      airborne                |-> FALSE,
      current_trick_name      |-> None,
      current_animation       |-> None,
      animation_frame         |-> 0,
      animation_timer         |-> 0,
      animation_completed     |-> FALSE,
      catch_required          |-> FALSE,
      catch_window_start      |-> 0,
      catch_success           |-> FALSE,
      catch_attempted         |-> FALSE,
      dead                    |-> FALSE,
      death_timer             |-> 0,
      perfect_catch_frames    |-> << >>,
      animation_metadata      |-> animation_metadata,
      in_grind_window         |-> FALSE,
      grind_window_start_time |-> 0,
      grinding                |-> FALSE,
      grind_trick             |-> None,
      grind_start_time        |-> 0,
      grind_hold_start_time   |-> 0,
      holding_grind_trick     |-> FALSE,
      pending_grind_trick     |-> None,
      move_speed              |-> move_speed_nominal,
      last_floor_update       |-> 0,
      rails                   |-> << >>,
      last_rail_spawn         |-> 0,
      angle                   |-> <<0, 0>>,
      \* what the frame printed or played, in no order; emptied when a
      \* frame begins
      emitted                 |-> {} ]

InitSelf ==
    __init__([width |-> display_width, height |-> display_height],
             [width |-> rail_image_width, height |-> rail_image_height])

\* the sounds and messages the model records in `emitted`; the foot
\* movement sounds "foot1" and "foot2" are played and not recorded
Observed ==
    { "attempt_started", "do_trick", "invalid_combination", "cancel_trick",
      "pop", "catch_on_pop", "catch", "catch_window_expired", "death",
      "death_sequence_complete", "land", "success", "fail", "landed",
      "grind_hold_completed", "grind_sound", "grind_window_expired",
      "rail_end", "manual" }

\* a sound played or a message printed during the frame
emit(s, e) == IF e \in Observed THEN [s EXCEPT !.emitted = @ \cup {e}] ELSE s

\* the fields of the object, without the frame's output
fields(s) == [s EXCEPT !.emitted = {}]

(***************************************************************************)
(* _update_time: the cached clock follows get_ticks() once 16 ms passed.   *)
(***************************************************************************)
_update_time(s, current_ticks) ==
    IF current_ticks - s._last_time_update >= _time_update_interval
    THEN [s EXCEPT !._current_time = current_ticks,
                   !._last_time_update = current_ticks]
    ELSE s

\* _handle_events: the frame's KEYDOWN / KEYUP events leave `keys`
_handle_events(s, keys) == [s EXCEPT !.keys_pressed = keys]

(***************************************************************************)
(* Hand regions.                                                           *)
(***************************************************************************)
\* variant: down wins over left as it does over right
_get_hand_direction_symmetric(keys) ==
    IF keys[1] /\ (keys[2] \/ keys[4]) THEN "up"
    ELSE IF keys[1] THEN "up"
    ELSE IF keys[3] /\ keys[4] THEN "down"
    ELSE IF keys[3] THEN "down"
    ELSE IF keys[2] THEN "left"
    ELSE IF keys[4] THEN "right"
    ELSE "center"

\* keys = <<up, left, down, right>>
_get_hand_direction(keys) ==
    IF keys[1] /\ (keys[2] \/ keys[4]) THEN "up"
    ELSE IF keys[1] THEN "up"
    ELSE IF keys[3] /\ keys[2] THEN "left"
    ELSE IF keys[3] /\ keys[4] THEN "down"
    ELSE IF keys[3] THEN "down"
    ELSE IF keys[2] THEN "left"
    ELSE IF keys[4] THEN "right"
    ELSE "center"

_update_keyboard_controls(s) ==
    LET kp == s.keys_pressed
        left_keys == <<kp["w"], kp["a"], kp["s"], kp["d"]>>
        right_keys == <<kp["i"], kp["j"], kp["k"], kp["l"]>>
    IN  [s EXCEPT !.hands = <<_get_hand_direction(left_keys),
                              _get_hand_direction(right_keys)>>]

_check_trick_combination(s) ==
    IF s.hands = CENTER THEN None ELSE first_match(trick_map, s.hands)

(***************************************************************************)
(* Catch system.                                                           *)
(***************************************************************************)
\* the list of perfect frames: the first min(5, n) indices, then those of
\* the last 4 that are not in the list yet
\* variant: the last four indices are appended without the duplicate test
_get_perfect_catch_frames_with_duplicates(s, trick_name) ==
    IF trick_name \notin DOMAIN s.animation_metadata THEN << >>
    ELSE LET total_frames == s.animation_metadata[trick_name].frames
             first == [i \in 1..Min2(5, total_frames) |-> i - 1]
             lo == Max2(0, total_frames - 4)
             last == [i \in 1..(total_frames - lo) |-> lo + i - 1]
         IN  first \o last

_get_perfect_catch_frames(s, trick_name) ==
    IF trick_name \notin DOMAIN s.animation_metadata THEN << >>
    ELSE LET total_frames == s.animation_metadata[trick_name].frames
             first == [i \in 1..Min2(5, total_frames) |-> i - 1]
             lo == Max2(0, total_frames - 4)
             last == [i \in 1..(total_frames - lo) |-> lo + i - 1]
             notFirst(i) == i \notin Range(first)
         IN  first \o SelectSeq(last, notFirst)

\* variant: the flight is set up without requiring a catch
_setup_catch_system_not_required(s, trick_name) ==
    [s EXCEPT !.catch_required = FALSE,
              !.catch_success = FALSE,
              !.catch_attempted = FALSE,
              !.dead = FALSE,
              !.death_timer = 0,
              !.perfect_catch_frames = _get_perfect_catch_frames(s, trick_name),
              !.catch_window_start = s._current_time + catch_window_delay]

_setup_catch_system(s, trick_name) ==
    [s EXCEPT !.catch_required = TRUE,
              !.catch_success = FALSE,
              !.catch_attempted = FALSE,
              !.dead = FALSE,
              !.death_timer = 0,
              !.perfect_catch_frames = _get_perfect_catch_frames(s, trick_name),
              !.catch_window_start = s._current_time + catch_window_delay]

\* variant: a death that leaves the forward movement running
_trigger_death_keeps_moving(s) ==
    emit([s EXCEPT !.dead = TRUE,
                   !.catch_success = FALSE,
                   !.catch_attempted = TRUE,
                   !.death_timer = s._current_time],
         "death")

\* variant: a failed catch that does not enter the Dead state
_trigger_death_stays_alive(s) ==
    emit([s EXCEPT !.catch_success = FALSE,
                   !.catch_attempted = TRUE,
                   !.death_timer = s._current_time,
                   !.move_speed = 0],
         "death")

_trigger_death(s) ==
    emit([s EXCEPT !.dead = TRUE,
                   !.catch_success = FALSE,
                   !.catch_attempted = TRUE,
                   !.death_timer = s._current_time,
                   !.move_speed = 0],
         "death")

\* variant: a release inside the window succeeds on every frame
_check_catch_input_any_frame(s) ==
    IF ~s.catch_required \/ ~s.airborne \/ s.catch_attempted \/ s.dead THEN s
    ELSE IF s._current_time < s.catch_window_start THEN s
    ELSE IF s._current_time > s.catch_window_start + catch_window_duration
         THEN _trigger_death(emit(s, "catch_window_expired"))
    ELSE IF s.hands = CENTER /\ ~s.catch_attempted
         THEN LET s1 == [s EXCEPT !.catch_attempted = TRUE,
                                  !.catch_success = TRUE]
                  s2 == IF s1.current_animation # None
                        THEN [s1 EXCEPT !.animation_completed = TRUE]
                        ELSE s1
              IN  emit(s2, "catch")
    ELSE s

\* variant: the window is taken to be open from the start of the flight
_check_catch_input_no_delay(s) ==
    IF ~s.catch_required \/ ~s.airborne \/ s.catch_attempted \/ s.dead THEN s
    ELSE IF s._current_time > s.catch_window_start + catch_window_duration
         THEN _trigger_death(emit(s, "catch_window_expired"))
    ELSE IF s.hands = CENTER /\ ~s.catch_attempted
         THEN LET s1 == [s EXCEPT !.catch_attempted = TRUE]
              IN  IF s1.animation_frame \in Range(s1.perfect_catch_frames)
                  THEN LET s2 == [s1 EXCEPT !.catch_success = TRUE]
                           s3 == IF s2.current_animation # None
                                 THEN [s2 EXCEPT !.animation_completed = TRUE]
                                 ELSE s2
                       IN  emit(s3, "catch")
                  ELSE _trigger_death(s1)
    ELSE s

\* variant: the catch input is read again after the catch was attempted
_check_catch_input_again(s) ==
    IF ~s.catch_required \/ ~s.airborne \/ s.dead THEN s
    ELSE IF s._current_time < s.catch_window_start THEN s
    ELSE IF s._current_time > s.catch_window_start + catch_window_duration
         THEN _trigger_death(emit(s, "catch_window_expired"))
    ELSE IF s.hands = CENTER
         THEN LET s1 == [s EXCEPT !.catch_attempted = TRUE]
              IN  IF s1.animation_frame \in Range(s1.perfect_catch_frames)
                  THEN LET s2 == [s1 EXCEPT !.catch_success = TRUE]
                           s3 == IF s2.current_animation # None
                                 THEN [s2 EXCEPT !.animation_completed = TRUE]
                                 ELSE s2
                       IN  emit(s3, "catch")
                  ELSE _trigger_death(s1)
    ELSE s

_check_catch_input(s) ==
    IF ~s.catch_required \/ ~s.airborne \/ s.catch_attempted \/ s.dead THEN s
    ELSE IF s._current_time < s.catch_window_start THEN s
    ELSE IF s._current_time > s.catch_window_start + catch_window_duration
         THEN _trigger_death(emit(s, "catch_window_expired"))
    ELSE IF s.hands = CENTER /\ ~s.catch_attempted
         THEN LET s1 == [s EXCEPT !.catch_attempted = TRUE]
              IN  IF s1.animation_frame \in Range(s1.perfect_catch_frames)
                  THEN LET s2 == [s1 EXCEPT !.catch_success = TRUE]
                           s3 == IF s2.current_animation # None
                                 THEN [s2 EXCEPT !.animation_completed = TRUE]
                                 ELSE s2
                       IN  emit(s3, "catch")
                  ELSE _trigger_death(s1)
    ELSE s

(***************************************************************************)
(* Starting a trick.                                                       *)
(***************************************************************************)
\* variant: a trick starts whether or not the board is airborne
do_trick_unguarded(s, trick_name, foot_combination) ==
    LET s1 == emit(emit(s, "pop"), "catch_on_pop")
        s2 == IF trick_name \in animation_maps
              THEN [s1 EXCEPT !.current_animation = trick_name,
                              !.animation_frame = 0,
                              !.animation_timer = 0,
                              !.animation_completed = FALSE]
              ELSE s1
        s3 == [s2 EXCEPT !.airborne = TRUE,
                         !.current_trick_name = trick_name]
    IN  _setup_catch_system(s3, trick_name)

do_trick(s, trick_name, foot_combination) ==
    IF s.airborne THEN s
    ELSE LET s1 == emit(emit(s, "pop"), "catch_on_pop")
             s2 == IF trick_name \in animation_maps
                   THEN [s1 EXCEPT !.current_animation = trick_name,
                                   !.animation_frame = 0,
                                   !.animation_timer = 0,
                                   !.animation_completed = FALSE]
                   ELSE s1
             s3 == [s2 EXCEPT !.airborne = TRUE,
                              !.current_trick_name = trick_name]
         IN  _setup_catch_system(s3, trick_name)

(***************************************************************************)
(* Trick detection.                                                        *)
(***************************************************************************)
_check_foot_movement_sounds(s, current_combination) ==
    LET s1 == IF current_combination[1] # s.last_hand_combination[1]
              THEN emit(s, "foot1") ELSE s
    IN  IF current_combination[2] # s.last_hand_combination[2]
        THEN emit(s1, "foot2") ELSE s1

\* variant: the hold timer stays armed after the hold was resolved
_resolve_hold_stays_armed(s, current_time, current_combination) ==
    IF current_time - s.trick_start_time >= trick_hold_duration
    THEN LET detected_trick == _check_trick_combination(s)
         IN  IF detected_trick # None
             THEN do_trick(emit(s, "do_trick"), detected_trick,
                           current_combination)
             ELSE emit(s, "invalid_combination")
    ELSE s

\* variant: an unmatched combination is dropped without a report
_resolve_hold_silent(s, current_time, current_combination) ==
    IF current_time - s.trick_start_time >= trick_hold_duration
    THEN LET detected_trick == _check_trick_combination(s)
             r == IF detected_trick # None
                  THEN do_trick(emit(s, "do_trick"), detected_trick,
                                current_combination)
                  ELSE s
         IN  [r EXCEPT !.trick_start_time = 0]
    ELSE s

\* lines 861-870: a combination held for trick_hold_duration is resolved
_resolve_hold(s, current_time, current_combination) ==
    IF current_time - s.trick_start_time >= trick_hold_duration
    THEN LET detected_trick == _check_trick_combination(s)
             r == IF detected_trick # None
                  THEN do_trick(emit(s, "do_trick"), detected_trick,
                                current_combination)
                  ELSE emit(s, "invalid_combination")
         IN  [r EXCEPT !.trick_start_time = 0]
    ELSE s

\* variant: returning to center leaves the attempt pending
_cancel_attempt_keeps_timer(s) == emit(s, "cancel_trick")

\* lines 873-888: the hands are back at center while an attempt is pending
_cancel_attempt(s) ==
    [emit(s, "cancel_trick") EXCEPT !.trick_start_time = 0]

\* variant: detection also runs while the board is grinding
_update_trick_detection_while_grinding(s, current_time) ==
    LET current_combination == s.hands
        has_combination == current_combination # CENTER
        s1 == IF has_combination /\ current_combination # s.last_hand_combination
              THEN emit([s EXCEPT !.trick_start_time = current_time],
                        "attempt_started")
              ELSE IF has_combination /\ s.trick_start_time > 0
              THEN _resolve_hold(s, current_time, current_combination)
              ELSE IF ~has_combination /\ s.trick_start_time > 0
              THEN _cancel_attempt(s)
              ELSE s
        s2 == _check_foot_movement_sounds(s1, current_combination)
    IN  [s2 EXCEPT !.last_hand_combination = current_combination]

_update_trick_detection(s, current_time) ==
    IF s.grinding THEN s
    ELSE
    LET current_combination == s.hands
        has_combination == current_combination # CENTER
        s1 == IF has_combination /\ current_combination # s.last_hand_combination
              THEN emit([s EXCEPT !.trick_start_time = current_time],
                        "attempt_started")
              ELSE IF has_combination /\ s.trick_start_time > 0
              THEN _resolve_hold(s, current_time, current_combination)
              ELSE IF ~has_combination /\ s.trick_start_time > 0
              THEN _cancel_attempt(s)
              ELSE s
        s2 == _check_foot_movement_sounds(s1, current_combination)
    IN  [s2 EXCEPT !.last_hand_combination = current_combination]

(***************************************************************************)
(* Animation.                                                              *)
(***************************************************************************)
\* the spin speed as a fraction <<numerator, denominator>>: 1, 1.5, 1.5, 1.0
_get_trick_spin_speed(trick_name) ==
    IF trick_name \in shuv_tricks THEN <<1, 1>>
    ELSE IF trick_name \in flip_tricks THEN <<3, 2>>
    ELSE IF trick_name \in varial_tricks THEN <<3, 2>>
    ELSE <<1, 1>>

\* variant: the end of the animation is detected one frame late
_update_animation_late_wrap(s) ==
    IF s.current_animation = None
       \/ s.current_animation \notin DOMAIN s.animation_metadata THEN s
    ELSE IF s.animation_completed THEN s
    ELSE
    LET trick_spin_speed == _get_trick_spin_speed(s.current_animation)
        due == (s._current_time - s.animation_timer) * trick_spin_speed[1]
                   >= animation_speed * trick_spin_speed[2]
        total_frames == s.animation_metadata[s.current_animation].frames
        should_loop == IF s.current_animation \in DOMAIN s.animation_loops
                       THEN s.animation_loops[s.current_animation] ELSE TRUE
        next == s.animation_frame + 1
    IN  IF ~due THEN s
        ELSE IF next > total_frames
             THEN IF should_loop
                  THEN [s EXCEPT !.animation_frame = 0,
                                 !.animation_timer = s._current_time]
                  ELSE [s EXCEPT !.animation_frame = total_frames - 1,
                                 !.animation_completed = TRUE,
                                 !.animation_timer = s._current_time]
             ELSE [s EXCEPT !.animation_frame = next,
                            !.animation_timer = s._current_time]

_update_animation(s) ==
    IF s.current_animation = None
       \/ s.current_animation \notin DOMAIN s.animation_metadata THEN s
    ELSE IF s.animation_completed THEN s
    ELSE
    LET trick_spin_speed == _get_trick_spin_speed(s.current_animation)
        \* current_time - animation_timer >= animation_speed / trick_spin_speed
        due == (s._current_time - s.animation_timer) * trick_spin_speed[1]
                   >= animation_speed * trick_spin_speed[2]
        total_frames == s.animation_metadata[s.current_animation].frames
        should_loop == IF s.current_animation \in DOMAIN s.animation_loops
                       THEN s.animation_loops[s.current_animation] ELSE TRUE
        next == s.animation_frame + 1
    IN  IF ~due THEN s
        ELSE IF next >= total_frames
             THEN IF should_loop
                  THEN [s EXCEPT !.animation_frame = 0,
                                 !.animation_timer = s._current_time]
                  ELSE [s EXCEPT !.animation_frame = total_frames - 1,
                                 !.animation_completed = TRUE,
                                 !.animation_timer = s._current_time]
             ELSE [s EXCEPT !.animation_frame = next,
                            !.animation_timer = s._current_time]

(***************************************************************************)
(* Angles.                                                                 *)
(***************************************************************************)
\* Angles are counted in half degrees, so that the values halfway between
\* two multiples of 15 degrees are whole numbers.
\*
\* Python's round(n / d) for whole n and d > 0: the nearest whole number, and
\* of two equally near ones the even one.  (A quotient k + 1/2 is exact in
\* binary floating point and division is correctly rounded, so no other
\* quotient is taken for a tie.)
round(n, d) ==
    LET q == n \div d
        r == n % d
    IN  IF 2 * r < d THEN q
        ELSE IF 2 * r > d THEN q + 1
        ELSE IF q % 2 = 0 THEN q ELSE q + 1

\* round(angle / 15) * 15, in half degrees
round_to_15(angle) == round(angle, 30) * 30

\* angle_key of get_sprite_position, "{shuv}_{flip}" as a pair, in degrees
get_sprite_position(shuv_angle, flip_angle) ==
    LET shuv == round(shuv_angle % 720, 30) * 15
        flip == round(flip_angle % 720, 30) * 15
    IN  <<shuv, flip>>

sprite_request(shuv_angle, flip_angle) ==
    [ shuv_angle |-> shuv_angle, flip_angle |-> flip_angle,
      angle_key  |-> get_sprite_position(shuv_angle, flip_angle) ]

\* render_board: the sprite is looked up by angle unless an animation or
\* the grind image is drawn; last is the lookup before this call
render_board(s, shuv_angle, flip_angle, last) ==
    IF s.current_animation # None \/ s.grinding
    THEN last
    ELSE sprite_request(shuv_angle, flip_angle)

set_angle(s, shuv_angle, flip_angle) ==
    [s EXCEPT !.angle = <<round_to_15(shuv_angle), round_to_15(flip_angle)>>]

(***************************************************************************)
(* Rails.                                                                  *)
(***************************************************************************)
abs(x) == IF x < 0 THEN -x ELSE x

\* variant: the leading buffer ends one pixel early
_check_rail_collision_strict(s) ==
    LET skateboard_x == s._skateboard_center_x
        skateboard_y == s._display_center_y
    IN  \E i \in DOMAIN s.rails :
            LET rail == s.rails[i]
                distance_y == abs(skateboard_y - rail.y)
                rail_start_x == rail.x
                rail_end_x == rail.x + rail.width * rail_stretch
            IN  /\ rail_start_x - rail_collision_buffer < skateboard_x
                /\ skateboard_x <= rail_end_x + rail_collision_buffer
                /\ distance_y < rail_collision_tolerance_y

_check_rail_collision(s) ==
    LET skateboard_x == s._skateboard_center_x
        skateboard_y == s._display_center_y
    IN  \E i \in DOMAIN s.rails :
            LET rail == s.rails[i]
                distance_y == abs(skateboard_y - rail.y)
                rail_start_x == rail.x
                rail_end_x == rail.x + rail.width * rail_stretch
            IN  /\ rail_start_x - rail_collision_buffer <= skateboard_x
                /\ skateboard_x <= rail_end_x + rail_collision_buffer
                /\ distance_y < rail_collision_tolerance_y

_check_rail_end(s) ==
    LET skateboard_x == s._skateboard_center_x
        skateboard_y == s._display_center_y
    IN  \E i \in DOMAIN s.rails :
            LET rail == s.rails[i]
                rail_start_x == rail.x
                rail_end_x == rail.x + rail.width * rail_stretch
                distance_y == abs(skateboard_y - rail.y)
            IN  /\ rail_start_x <= skateboard_x
                /\ skateboard_x <= rail_end_x
                /\ distance_y < rail_end_tolerance_y
                /\ skateboard_x >= rail_end_x - rail_end_margin

_spawn_rail(s) ==
    LET rail_width == s.rail_image.width
        rail_height == s.rail_image.height
        rail_x == s.display_width
        rail_y == s.display_height \div 2 - rail_height \div 2
    IN  [s EXCEPT !.rails = Append(@, [x |-> rail_x, y |-> rail_y,
                                       width |-> rail_width,
                                       height |-> rail_height])]

\* variant: a rail is removed as if it were drawn without the stretch
_update_rails_unstretched(s) ==
    IF s._current_time - s.last_floor_update >= move_update_interval
    THEN LET moved == [i \in DOMAIN s.rails |->
                          [s.rails[i] EXCEPT !.x = @ - s.move_speed]]
             on_screen(rail) == ~(rail.x + rail.width < 0)
         IN  [s EXCEPT !.rails = SelectSeq(moved, on_screen)]
    ELSE s

\* every rail moves left by move_speed; a rail whose stretched far edge is
\* left of 0 after its move is removed
_update_rails(s) ==
    IF s._current_time - s.last_floor_update >= move_update_interval
    THEN LET moved == [i \in DOMAIN s.rails |->
                          [s.rails[i] EXCEPT !.x = @ - s.move_speed]]
             on_screen(rail) == ~(rail.x + rail.width * rail_stretch < 0)
         IN  [s EXCEPT !.rails = SelectSeq(moved, on_screen)]
    ELSE s

(***************************************************************************)
(* Landing.                                                                *)
(***************************************************************************)
\* variant: every landing plays the land sound and the success chime
_land_board_always_success(s) ==
    LET s1 == [s EXCEPT !.in_grind_window = FALSE,
                        !.grinding = FALSE,
                        !.grind_trick = None,
                        !.holding_grind_trick = FALSE,
                        !.pending_grind_trick = None,
                        !.catch_required = FALSE,
                        !.catch_success = FALSE,
                        !.catch_attempted = FALSE,
                        !.dead = FALSE,
                        !.death_timer = 0,
                        !.perfect_catch_frames = << >>,
                        !.move_speed = 30,
                        !.airborne = FALSE,
                        !.current_animation = None,
                        !.animation_frame = 0,
                        !.animation_completed = FALSE]
    IN  set_angle(emit(emit(emit(s1, "land"), "success"), "landed"), 0, 0)

\* variant: a landing that does not restore the forward movement
_land_board_keeps_speed(s) ==
    LET was_caught_successfully == s.catch_success
        s1 == [s EXCEPT !.in_grind_window = FALSE,
                        !.grinding = FALSE,
                        !.grind_trick = None,
                        !.holding_grind_trick = FALSE,
                        !.pending_grind_trick = None,
                        !.catch_required = FALSE,
                        !.catch_success = FALSE,
                        !.catch_attempted = FALSE,
                        !.dead = FALSE,
                        !.death_timer = 0,
                        !.perfect_catch_frames = << >>,
                        !.airborne = FALSE,
                        !.current_animation = None,
                        !.animation_frame = 0,
                        !.animation_completed = FALSE]
        s2 == IF was_caught_successfully
              THEN emit(emit(s1, "land"), "success")
              ELSE emit(s1, "fail")
    IN  set_angle(emit(s2, "landed"), 0, 0)

_land_board(s) ==
    LET was_caught_successfully == s.catch_success
        s1 == [s EXCEPT !.in_grind_window = FALSE,
                        !.grinding = FALSE,
                        !.grind_trick = None,
                        !.holding_grind_trick = FALSE,
                        !.pending_grind_trick = None,
                        !.catch_required = FALSE,
                        !.catch_success = FALSE,
                        !.catch_attempted = FALSE,
                        !.dead = FALSE,
                        !.death_timer = 0,
                        !.perfect_catch_frames = << >>,
                        !.move_speed = 30,
                        !.airborne = FALSE,
                        !.current_animation = None,
                        !.animation_frame = 0,
                        !.animation_completed = FALSE]
        s2 == IF was_caught_successfully
              THEN emit(emit(s1, "land"), "success")
              ELSE emit(s1, "fail")
    IN  set_angle(emit(s2, "landed"), 0, 0)

(***************************************************************************)
(* Grinding.                                                               *)
(***************************************************************************)
\* variant: the grind starts with the grind window left open
_start_grind_keeps_window(s, grind_name) ==
    IF ~_check_rail_collision(s) THEN s
    ELSE emit([s EXCEPT !.grinding = TRUE,
                        !.grind_trick = grind_name,
                        !.grind_start_time = s._current_time,
                        !.current_animation = None,
                        !.animation_frame = 0,
                        !.animation_completed = FALSE],
              "grind_sound")

\* variant: the grind starts with the trick's animation left in place
_start_grind_keeps_animation(s, grind_name) ==
    IF ~_check_rail_collision(s) THEN s
    ELSE emit([s EXCEPT !.grinding = TRUE,
                        !.grind_trick = grind_name,
                        !.in_grind_window = FALSE,
                        !.grind_start_time = s._current_time],
              "grind_sound")

_start_grind(s, grind_name) ==
    IF ~_check_rail_collision(s) THEN s
    ELSE emit([s EXCEPT !.grinding = TRUE,
                        !.grind_trick = grind_name,
                        !.in_grind_window = FALSE,
                        !.grind_start_time = s._current_time,
                        !.current_animation = None,
                        !.animation_frame = 0,
                        !.animation_completed = FALSE],
              "grind_sound")

\* variant: hands at center leave a pending grind trick pending
_check_grind_trick_input_keeps_pending(s) ==
    IF s.hands = CENTER THEN s
    ELSE IF s._current_time - s.grind_window_start_time >= grind_window_duration
    THEN s
    ELSE
    LET grind_name == first_match(grind_trick_map, s.hands)
        s1 == IF ~s.holding_grind_trick \/ s.pending_grind_trick # grind_name
              THEN [s EXCEPT !.holding_grind_trick = TRUE,
                             !.pending_grind_trick = grind_name,
                             !.grind_hold_start_time = s._current_time]
              ELSE s
        hold_duration == s1._current_time - s1.grind_hold_start_time
    IN  IF grind_name = None THEN s
        ELSE IF hold_duration >= grind_hold_duration
        THEN [_start_grind(emit(s1, "grind_hold_completed"), grind_name)
                 EXCEPT !.holding_grind_trick = FALSE,
                        !.pending_grind_trick = None]
        ELSE s1

_check_grind_trick_input(s) ==
    IF s.hands = CENTER
    THEN IF s.holding_grind_trick
         THEN [s EXCEPT !.holding_grind_trick = FALSE,
                        !.pending_grind_trick = None]
         ELSE s
    ELSE IF s._current_time - s.grind_window_start_time >= grind_window_duration
    THEN s
    ELSE
    LET grind_name == first_match(grind_trick_map, s.hands)
        s1 == IF ~s.holding_grind_trick \/ s.pending_grind_trick # grind_name
              THEN [s EXCEPT !.holding_grind_trick = TRUE,
                             !.pending_grind_trick = grind_name,
                             !.grind_hold_start_time = s._current_time]
              ELSE s
        hold_duration == s1._current_time - s1.grind_hold_start_time
    IN  IF grind_name = None THEN s
        ELSE IF hold_duration >= grind_hold_duration
        THEN [_start_grind(emit(s1, "grind_hold_completed"), grind_name)
                 EXCEPT !.holding_grind_trick = FALSE,
                        !.pending_grind_trick = None]
        ELSE s1

\* reason is "rail_end" or "manual"
_exit_grind(s, reason) == _land_board(emit(emit(s, reason), "land"))

\* variant: the manual exit needs more than min_grind_duration
_update_grinding_state_strict(s) ==
    LET grind_duration == s._current_time - s.grind_start_time
    IN  IF _check_rail_end(s) THEN _exit_grind(s, "rail_end")
        ELSE IF s.hands = CENTER /\ grind_duration > min_grind_duration
        THEN _exit_grind(s, "manual")
        ELSE s

\* variant: the manual exit is tested before the rail end
_update_grinding_state_manual_first(s) ==
    LET grind_duration == s._current_time - s.grind_start_time
    IN  IF s.hands = CENTER /\ grind_duration >= min_grind_duration
        THEN _exit_grind(s, "manual")
        ELSE IF _check_rail_end(s) THEN _exit_grind(s, "rail_end")
        ELSE s

_update_grinding_state(s) ==
    LET grind_duration == s._current_time - s.grind_start_time
    IN  IF _check_rail_end(s) THEN _exit_grind(s, "rail_end")
        ELSE IF s.hands = CENTER /\ grind_duration >= min_grind_duration
        THEN _exit_grind(s, "manual")
        ELSE s

(***************************************************************************)
(* The airborne update of a frame.                                         *)
(***************************************************************************)
\* variant: an expired grind window lands the board as a failed attempt
_after_catch_decision_abandoned(s) ==
    LET s1 == IF s.hands[1] = "center" /\ s.hands[2] = "center"
              THEN IF s.in_grind_window
                   THEN IF s._current_time - s.grind_window_start_time
                               >= grind_window_duration
                        THEN _land_board(emit([s EXCEPT !.catch_success = FALSE],
                                              "grind_window_expired"))
                        ELSE s
                   ELSE IF ~s.grinding /\ s.current_animation # None
                   THEN [s EXCEPT !.animation_completed = TRUE]
                   ELSE s
              ELSE s
        s2 == IF s1.in_grind_window THEN _check_grind_trick_input(s1) ELSE s1
    IN  IF s2.grinding THEN _update_grinding_state(s2) ELSE s2

\* lines 1200-1224: key release logic, grind input, grind exit
_after_catch_decision(s) ==
    LET s1 == IF s.hands[1] = "center" /\ s.hands[2] = "center"
              THEN IF s.in_grind_window
                   THEN IF s._current_time - s.grind_window_start_time
                               >= grind_window_duration
                        THEN _land_board(emit(s, "grind_window_expired"))
                        ELSE s
                   ELSE IF ~s.grinding /\ s.current_animation # None
                   THEN [s EXCEPT !.animation_completed = TRUE]
                   ELSE s
              ELSE s
        s2 == IF s1.in_grind_window THEN _check_grind_trick_input(s1) ELSE s1
    IN  IF s2.grinding THEN _update_grinding_state(s2) ELSE s2

\* variant: a rail near the skater opens the grind window before the catch
_update_airborne_state_window_before_catch(s) ==
    IF ~s.airborne THEN s
    ELSE
    LET s1 == IF s.current_animation # None THEN _update_animation(s) ELSE s
        s2 == _check_catch_input(s1)
        open(x) == IF ~x.in_grind_window /\ ~x.grinding
                   THEN [x EXCEPT !.grind_window_start_time = x._current_time,
                                  !.in_grind_window = TRUE]
                   ELSE x
    IN  IF s2.dead
        THEN IF s2._current_time - s2.death_timer >= death_duration
             THEN _land_board(emit(s2, "death_sequence_complete"))
             ELSE s2
        ELSE IF s2.catch_required /\ s2.catch_attempted
        THEN IF s2.catch_success
             THEN IF _check_rail_collision(s2)
                  THEN _after_catch_decision(open(s2))
                  ELSE _land_board(s2)
             ELSE _land_board(s2)
        ELSE IF _check_rail_collision(s2)
        THEN _after_catch_decision(open(s2))
        ELSE _after_catch_decision(s2)

\* variant: a successful catch opens the grind window with or without a rail
_update_airborne_state_no_rail_check(s) ==
    IF ~s.airborne THEN s
    ELSE
    LET s1 == IF s.current_animation # None THEN _update_animation(s) ELSE s
        s2 == _check_catch_input(s1)
    IN  IF s2.dead
        THEN IF s2._current_time - s2.death_timer >= death_duration
             THEN _land_board(emit(s2, "death_sequence_complete"))
             ELSE s2
        ELSE IF s2.catch_required /\ s2.catch_attempted
        THEN IF s2.catch_success
             THEN IF ~s2.in_grind_window /\ ~s2.grinding
                  THEN _after_catch_decision(
                           [s2 EXCEPT !.grind_window_start_time = s2._current_time,
                                      !.in_grind_window = TRUE])
                  ELSE _after_catch_decision(s2)
             ELSE _land_board(s2)
        ELSE _after_catch_decision(s2)

\* variant: on the ground the catch window of the last flight is still
\* watched
_update_airborne_state_stale_window(s) ==
    IF ~s.airborne
    THEN IF s.catch_window_start > 0
            /\ s._current_time > s.catch_window_start + catch_window_duration
         THEN _trigger_death(emit(s, "catch_window_expired"))
         ELSE s
    ELSE
    LET s1 == IF s.current_animation # None THEN _update_animation(s) ELSE s
        s2 == _check_catch_input(s1)
    IN  IF s2.dead
        THEN IF s2._current_time - s2.death_timer >= death_duration
             THEN _land_board(emit(s2, "death_sequence_complete"))
             ELSE s2
        ELSE IF s2.catch_required /\ s2.catch_attempted
        THEN IF s2.catch_success
             THEN IF _check_rail_collision(s2)
                  THEN IF ~s2.in_grind_window /\ ~s2.grinding
                       THEN _after_catch_decision(
                                [s2 EXCEPT !.grind_window_start_time = s2._current_time,
                                           !.in_grind_window = TRUE])
                       ELSE _after_catch_decision(s2)
                  ELSE _land_board(s2)
             ELSE _land_board(s2)
        ELSE _after_catch_decision(s2)

\* variant: a dead board is never put back on the ground
_update_airborne_state_death_lingers(s) ==
    IF ~s.airborne THEN s
    ELSE
    LET s1 == IF s.current_animation # None THEN _update_animation(s) ELSE s
        s2 == _check_catch_input(s1)
    IN  IF s2.dead
        THEN s2
        ELSE IF s2.catch_required /\ s2.catch_attempted
        THEN IF s2.catch_success
             THEN IF _check_rail_collision(s2)
                  THEN IF ~s2.in_grind_window /\ ~s2.grinding
                       THEN _after_catch_decision(
                                [s2 EXCEPT !.grind_window_start_time = s2._current_time,
                                           !.in_grind_window = TRUE])
                       ELSE _after_catch_decision(s2)
                  ELSE _land_board(s2)
             ELSE _land_board(s2)
        ELSE _after_catch_decision(s2)

_update_airborne_state(s) ==
    IF ~s.airborne THEN s
    ELSE
    LET s1 == IF s.current_animation # None THEN _update_animation(s) ELSE s
        s2 == _check_catch_input(s1)
    IN  IF s2.dead
        THEN IF s2._current_time - s2.death_timer >= death_duration
             THEN _land_board(emit(s2, "death_sequence_complete"))
             ELSE s2
        ELSE IF s2.catch_required /\ s2.catch_attempted
        THEN IF s2.catch_success
             THEN IF _check_rail_collision(s2)
                  THEN IF ~s2.in_grind_window /\ ~s2.grinding
                       THEN _after_catch_decision(
                                [s2 EXCEPT !.grind_window_start_time = s2._current_time,
                                           !.in_grind_window = TRUE])
                       ELSE _after_catch_decision(s2)
                  ELSE _land_board(s2)
             ELSE _land_board(s2)
        ELSE _after_catch_decision(s2)

(***************************************************************************)
(* One frame.                                                              *)
(***************************************************************************)
\* variant: rails are spawned only while the rails advance
_update_game_state_spawn_while_moving(s, draw) ==
    LET s1 == _update_keyboard_controls(s)
        s2 == _update_trick_detection(s1, s1._current_time)
        s3 == _update_airborne_state(s2)
        s4 == _update_rails(s3)
    IN  IF s4.move_speed > 0 /\ s4._current_time - s4.last_rail_spawn >= draw
        THEN [_spawn_rail(s4) EXCEPT !.last_rail_spawn = s4._current_time]
        ELSE s4

\* draw is the frame's random.uniform(*rail_spawn_interval)
_update_game_state(s, draw) ==
    LET s1 == _update_keyboard_controls(s)
        s2 == _update_trick_detection(s1, s1._current_time)
        s3 == _update_airborne_state(s2)
        s4 == _update_rails(s3)
    IN  IF s4._current_time - s4.last_rail_spawn >= draw
        THEN [_spawn_rail(s4) EXCEPT !.last_rail_spawn = s4._current_time]
        ELSE s4

\* the object after one iteration of the loop of run() that starts when
\* the clock reads current_ticks
run_iteration(s, current_ticks, keys, draw) ==
    _update_game_state(
        _handle_events(_update_time([s EXCEPT !.emitted = {}], current_ticks), keys),
        draw)

Init ==
    /\ self = InitSelf
    /\ get_ticks = StartupMs
    /\ held_ms = 0
    /\ flights_in_hold = 0
    /\ flights_started = 0
    /\ ground_frames = 0
    /\ window_frames = 0
    /\ grind_frames = 0
    /\ rails_moved_at = 0
    /\ rendered = sprite_request(InitSelf.angle[1], InitSelf.angle[2])

\* the object when the iteration that starts at current_ticks reaches
\* _update_rails
at_update_rails(s, current_ticks, keys) ==
    LET s0 == _handle_events(_update_time([s EXCEPT !.emitted = {}], current_ticks),
                             keys)
        s1 == _update_keyboard_controls(s0)
        s2 == _update_trick_detection(s1, s1._current_time)
    IN  _update_airborne_state(s2)

\* one iteration of the loop of run(), dt after the previous one, and what
\* the history variables record of it
Iteration(dt, keys, draw) ==
    /\ get_ticks' = get_ticks + dt
    /\ self' = run_iteration(self, get_ticks + dt, keys, draw)
    /\ held_ms' = IF self'.hands = self.hands /\ self'.hands # CENTER
                  THEN Min2(trick_hold_duration,
                            held_ms + (self'._current_time - self._current_time))
                  ELSE 0
    /\ flights_started' = IF "pop" \in self'.emitted
                          THEN flights_started + 1 ELSE flights_started
    /\ ground_frames' = IF self'.airborne THEN ground_frames ELSE ground_frames + 1
    /\ window_frames' = IF self'.in_grind_window THEN window_frames + 1 ELSE window_frames
    /\ grind_frames' = IF self'.grinding THEN grind_frames + 1 ELSE grind_frames
    /\ rails_moved_at' =
          LET s3 == at_update_rails(self, get_ticks + dt, keys)
          IN  IF _update_rails(s3).rails # s3.rails
              THEN s3._current_time ELSE rails_moved_at
    /\ rendered' = render_board(self', self'.angle[1], self'.angle[2], rendered)
    /\ flights_in_hold' =
          LET started == IF "pop" \in self'.emitted THEN 1 ELSE 0
          IN  IF self'.hands = CENTER THEN 0
              ELSE IF self'.hands = self.hands
              THEN Min2(2, flights_in_hold + started)
              ELSE started

Frame(dt, keys, draw) ==
    /\ get_ticks + dt <= MaxTime
    /\ flights_started <= MaxFlights
    /\ Iteration(dt, keys, draw)
    /\ ground_frames' <= MaxGroundFrames
    /\ window_frames' <= MaxWindowFrames
    /\ grind_frames' <= MaxGrindFrames

Next == \E keys \in KeySnapshots, draw \in SpawnDraws : Frame(FrameMs, keys, draw)

Spec == Init /\ [][Next]_vars

(***************************************************************************)
(* The object in the middle of the frame that starts now.                  *)
(***************************************************************************)
\* when the frame reaches _update_trick_detection
at_trick_detection(keys) ==
    _update_keyboard_controls(
        _handle_events(_update_time([self EXCEPT !.emitted = {}],
                                    get_ticks + FrameMs), keys))

\* when the frame reaches _check_catch_input
at_check_catch_input(keys) ==
    LET s1 == at_trick_detection(keys)
        s2 == _update_trick_detection(s1, s1._current_time)
    IN  IF s2.current_animation # None THEN _update_animation(s2) ELSE s2

\* the catch window of the flight of s is open at the clock of s
in_catch_window(s) ==
    /\ s._current_time >= s.catch_window_start
    /\ s._current_time <= s.catch_window_start + catch_window_duration

\* s is in a flight whose catch has not been attempted
awaiting_catch(s) ==
    s.airborne /\ s.catch_required /\ ~s.catch_attempted /\ ~s.dead

(***************************************************************************)
(* Properties.                                                             *)
(***************************************************************************)

\* C1: at every tick boundary the board never grinds while it is not
\* airborne, and the grind window is never open while the board grinds.
C1_GrindOnlyAirborne ==
    /\ self.grinding => self.airborne
    /\ ~(self.in_grind_window /\ self.grinding)

\* a grind is under way
C1_Grinding == self.grinding /\ "grind_sound" \in self.emitted

\* C2: a tick starts a flight only if the hands showed the same non-center
\* combination on every tick of the last trick_hold_duration.
C2_FlightOnlyAfterFullHold ==
    "pop" \in self.emitted =>
        (self.hands # CENTER /\ held_ms >= trick_hold_duration)

\* C3: while one combination stays held without change, at most one flight
\* is started, landing included.
C3_OneFlightPerHold == flights_in_hold <= 1

\* the flight of the hold has landed and the combination is still held
C3_HeldThroughLanding ==
    flights_in_hold = 1 /\ ~self.airborne /\ self.hands # CENTER

C5_DoTrickAirborneNoEffect ==
    \A keys \in KeySnapshots :
        LET s == at_trick_detection(keys)
        IN  s.airborne =>
                \A i \in DOMAIN trick_map :
                    do_trick(s, trick_map[i].name, s.hands) = s

\* a held combination was resolved to a trick in the middle of a flight
C5_ResolvedInFlight ==
    /\ "do_trick" \in self.emitted
    /\ "pop" \notin self.emitted
    /\ self.airborne

\* C6: when the board grinds as detection runs, detection emits nothing and
\* leaves the hold timer and the last seen combination as they were.
C6_NoDetectionWhileGrinding ==
    \A keys \in KeySnapshots :
        LET s == at_trick_detection(keys)
            r == _update_trick_detection(s, s._current_time)
        IN  s.grinding =>
                /\ r.emitted = {}
                /\ r.trick_start_time = s.trick_start_time
                /\ r.last_hand_combination = s.last_hand_combination
                /\ r = s

\* the hands moved during a grind and detection did not follow them
C6_HandsMovedInGrind ==
    self.grinding /\ self.hands # self.last_hand_combination

\* C7: at every tick boundary a catch is required exactly when the board is
\* airborne.
C7_CatchRequiredIffAirborne == self.catch_required = self.airborne

\* a flight whose catch succeeded and that has not landed
C7_CaughtInFlight ==
    self.airborne /\ self.catch_required /\ self.catch_success

\* C8: inside the catch window of a flight without an earlier attempt,
\* hands at center make the attempt, which succeeds exactly when the
\* animation frame is a perfect frame; other hands change nothing.
C8_CatchDecidedByFrame ==
    \A keys \in KeySnapshots :
        LET s == at_check_catch_input(keys)
            r == _check_catch_input(s)
        IN  (awaiting_catch(s) /\ in_catch_window(s)) =>
                IF s.hands = CENTER
                THEN /\ r.catch_attempted
                     /\ r.catch_success <=>
                            s.animation_frame \in Range(s.perfect_catch_frames)
                ELSE r = s

\* a catch was made on a perfect frame on this tick
C8_Caught == "catch" \in self.emitted /\ self.catch_attempted

\* C9: on a tick past the end of the catch window of a flight without an
\* attempt, the attempt is forced and fails and the Dead state is entered; no
\* tick boundary has a flight un-attempted and alive past its window.
C9_WindowExpiryKills ==
    /\ \A keys \in KeySnapshots :
           LET s == at_check_catch_input(keys)
               r == _check_catch_input(s)
           IN  (/\ awaiting_catch(s)
                /\ s._current_time > s.catch_window_start + catch_window_duration)
               => (r.catch_attempted /\ ~r.catch_success /\ r.dead)
    /\ (self.airborne /\ ~self.catch_attempted /\ ~self.dead)
           => self._current_time <= self.catch_window_start + catch_window_duration

\* the window expired on this tick
C9_Expired == "catch_window_expired" \in self.emitted /\ self.dead

\* C10: on a tick before the catch window opens, the hands have no effect on
\* catch_attempted, catch_success and dead.
C10_NoCatchBeforeWindow ==
    \A keys \in KeySnapshots :
        LET s == at_check_catch_input(keys)
            r == _check_catch_input(s)
        IN  (s.airborne /\ s._current_time < s.catch_window_start) =>
                /\ r.catch_attempted = s.catch_attempted
                /\ r.catch_success = s.catch_success
                /\ r.dead = s.dead
                /\ r = s

\* the hands are at center in a flight whose window has not opened
C10_ReleasedBeforeWindow ==
    /\ self.airborne
    /\ self.hands = CENTER
    /\ self._current_time < self.catch_window_start
    /\ "pop" \notin self.emitted

(***************************************************************************)
(* Tricks started on an object whose animation metadata files give any     *)
(* frame count.                                                            *)
(***************************************************************************)
\* largest "Frames:" value of a metadata file
MaxFrames == 12

\* the tricks whose metadata file is drawn
MetadataTricks == {"Kickflip", "Ollie"}

InitMetadata ==
    /\ \E n \in [MetadataTricks -> 0..MaxFrames] :
           self = [InitSelf EXCEPT !.animation_metadata =
                                       [t \in MetadataTricks |-> [frames |-> n[t]]]]
    /\ get_ticks = StartupMs
    /\ held_ms = 0
    /\ flights_in_hold = 0
    /\ flights_started = 0
    /\ ground_frames = 0
    /\ window_frames = 0
    /\ grind_frames = 0
    /\ rails_moved_at = 0
    /\ rendered = sprite_request(InitSelf.angle[1], InitSelf.angle[2])

\* do_trick is called for the i-th trick of trick_map
StartTrick(i) ==
    /\ ~self.airborne
    /\ self' = do_trick([self EXCEPT !.emitted = {}],
                        trick_map[i].name, trick_map[i].hands)
    /\ flights_started' = flights_started + 1
    /\ UNCHANGED <<get_ticks, held_ms, flights_in_hold, ground_frames,
                   window_frames, grind_frames, rails_moved_at, rendered>>

NextMetadata == \E i \in DOMAIN trick_map : StartTrick(i)

SpecMetadata == InitMetadata /\ [][NextMetadata]_vars

at_update_airborne_state(keys) ==
    LET s1 == at_trick_detection(keys)
    IN  _update_trick_detection(s1, s1._current_time)

\* C12: a dead board is airborne with a failed catch attempt and does not
\* move forward; a board that is not dead moves at the nominal speed.
C12_DeadFreezesMovement ==
    /\ self.dead => /\ self.airborne
                    /\ self.catch_attempted
                    /\ ~self.catch_success
                    /\ self.move_speed = 0
    /\ ~self.dead => self.move_speed = move_speed_nominal

\* the catch was missed on this tick
C12_MissedCatch ==
    /\ self.dead
    /\ "death" \in self.emitted
    /\ "catch_window_expired" \notin self.emitted

\* C13: a dead board stays dead while now - death_timer < death_duration
\* and lands on the first tick where now - death_timer >= death_duration,
\* with the fail sound and without the land sound and the success chime.
C13_DeathEndsInFailedLanding ==
    [][self.dead =>
          IF self'._current_time - self.death_timer >= death_duration
          THEN /\ ~self'.airborne
               /\ ~self'.dead
               /\ "fail" \in self'.emitted
               /\ "success" \notin self'.emitted
               /\ "land" \notin self'.emitted
          ELSE /\ self'.dead
               /\ self'.airborne
               /\ self'.death_timer = self.death_timer
               /\ "landed" \notin self'.emitted]_vars

\* the death sequence ended in a landing on this tick
C13_LandedAfterDeath ==
    /\ "death_sequence_complete" \in self.emitted
    /\ "fail" \in self.emitted
    /\ ~self.airborne

\* C14: a catch that succeeds on a tick on which no rail is near lands the
\* board on that tick with the success chime and the land sound.
C14_CatchWithoutRailLands ==
    \A keys \in KeySnapshots :
        LET s == at_update_airborne_state(keys)
            r == _update_airborne_state(s)
        IN  ("catch" \in r.emitted /\ ~_check_rail_collision(s)) =>
                /\ ~r.airborne
                /\ "success" \in r.emitted
                /\ "land" \in r.emitted
                /\ "fail" \notin r.emitted

\* a caught trick landed on the tick of the catch, no rail being near
C14_CaughtAndLanded ==
    /\ "catch" \in self.emitted
    /\ "landed" \in self.emitted
    /\ "success" \in self.emitted
    /\ ~self.airborne

(***************************************************************************)
(* A flight that is caught next to a rail: the player waits while the      *)
(* first rail approaches, holds the Kickflip combination from one of two   *)
(* moments on and releases it on a perfect frame when the rail is at the   *)
(* skater; from then on the keys are free until the board has landed.      *)
(* The player may also start the flight at once, long before the rail      *)
(* arrives, and release at any frame of the first ReleaseDelayMs of the     *)
(* catch window, perfect or not.                                           *)
(***************************************************************************)
\* duration of one frame
RailFrameMs == 50
\* frames the player waits before the early hold, and how many frames
\* later the late hold begins
IdleFrames == 55
LateFrames == 13
\* how long after the catch window opened the player releases the keys
ReleaseDelayMs == 300
\* the clock value after which no further frame is explored
RailMaxTime == 10800

\* number of frames run so far
frames_run == (get_ticks - StartupMs) \div RailFrameMs

\* (center,center); (left,down) = Kickflip / Smith Grind; (left,left) = Nose
\* Grind; (left,center) = neither a trick nor a grind trick
RailKeySnapshots ==
    {Pressed({}), Pressed({"a", "k"}), Pressed({"a", "j"}), Pressed({"a"})}

\* the keys the next frame may read
RailKeys ==
    IF flights_started = 0 /\ self.hands = CENTER
    THEN IF frames_run = 0 THEN {Pressed({}), Pressed({"a", "k"})}
         ELSE IF frames_run < IdleFrames THEN {Pressed({})}
         ELSE IF frames_run = IdleFrames THEN {Pressed({}), Pressed({"a", "k"})}
         ELSE IF frames_run < IdleFrames + LateFrames THEN {Pressed({})}
         ELSE {Pressed({"a", "k"})}
    ELSE IF ~self.airborne THEN {Pressed({"a", "k"})}
    ELSE IF ~self.catch_attempted
    THEN IF get_ticks + RailFrameMs >= self.catch_window_start + ReleaseDelayMs
         THEN {Pressed({})}
         ELSE IF /\ frames_run < IdleFrames
                 /\ get_ticks + RailFrameMs >= self.catch_window_start
         THEN {Pressed({}), Pressed({"a", "k"})}
         ELSE {Pressed({"a", "k"})}
    ELSE RailKeySnapshots

RailFrame(keys) ==
    /\ get_ticks + RailFrameMs <= RailMaxTime
    /\ keys \in RailKeys
    /\ flights_started > 0 => self.airborne
    /\ Iteration(RailFrameMs, keys, rail_spawn_interval_max)

NextRail == \E keys \in RailKeySnapshots : RailFrame(keys)

SpecRail == Init /\ [][NextRail]_vars

\* C15: while the grind window is open the board is airborne after a
\* successful catch and not dead, and a tick opens the window only when a
\* rail is near the skater on that tick.
C15_WindowOnlyAfterCatchAtRail ==
    /\ self.in_grind_window => /\ self.airborne
                               /\ self.catch_attempted
                               /\ self.catch_success
                               /\ ~self.dead
    /\ \A keys \in KeySnapshots :
           LET s == at_update_airborne_state(keys)
               r == _update_airborne_state(s)
           IN  (\/ r.in_grind_window /\ ~s.in_grind_window
                \/ r.grind_window_start_time # s.grind_window_start_time)
               => (_check_rail_collision(s) /\ r.catch_success)

\* the grind window was opened on this tick
C15_WindowOpened ==
    /\ self.in_grind_window
    /\ self.grind_window_start_time = self._current_time
    /\ "catch" \in self.emitted

\* C16: a tick starts a grind only if the hands showed the combination of
\* that grind trick on every tick of the last grind_hold_duration.
C16_GrindOnlyAfterFullHold ==
    "grind_sound" \in self.emitted =>
        /\ first_match(grind_trick_map, self.hands) = self.grind_trick
        /\ held_ms >= grind_hold_duration

\* C17: no tick ends with the grind window open grind_window_duration or
\* more after it was opened: without a commit the board has landed by then,
\* whatever the hands hold.
C17_ExpiredWindowLands ==
    self.in_grind_window =>
        self._current_time - self.grind_window_start_time < grind_window_duration

\* when the next frame of the rail scenario reaches _update_airborne_state
rail_at_update_airborne_state(keys) ==
    LET s1 == _update_keyboard_controls(
                  _handle_events(_update_time([self EXCEPT !.emitted = {}],
                                              get_ticks + RailFrameMs), keys))
    IN  _update_trick_detection(s1, s1._current_time)

\* s is in an unexpired grind window with a grind trick pending, the hands
\* at center
releases_pending_grind(s) ==
    /\ s.in_grind_window
    /\ s._current_time - s.grind_window_start_time < grind_window_duration
    /\ s.holding_grind_trick
    /\ s.pending_grind_trick # None
    /\ s.hands = CENTER

\* r has no pending grind trick, no grind, and the grind window of s
pending_cleared_window_kept(s, r) ==
    /\ ~r.holding_grind_trick
    /\ r.pending_grind_trick = None
    /\ ~r.grinding
    /\ r.in_grind_window
    /\ r.grind_window_start_time = s.grind_window_start_time

\* C18 as stated: in an unexpired grind window, a tick with both hands at
\* center while a grind trick is pending clears the pending trick, commits
\* no grind and keeps the window open.
C18_ReleaseKeepsWindow ==
    \A keys \in RailKeySnapshots :
        LET s == rail_at_update_airborne_state(keys)
            r == _update_airborne_state(s)
        IN  releases_pending_grind(s) => pending_cleared_window_kept(s, r)

\* C18: in an unexpired grind window with a rail still near the skater, a
\* tick with both hands at center while a grind trick is pending clears the
\* pending trick, commits no grind and keeps the window open.
C18_ReleaseKeepsWindowAtRail ==
    \A keys \in RailKeySnapshots :
        LET s == rail_at_update_airborne_state(keys)
            r == _update_airborne_state(s)
        IN  (releases_pending_grind(s) /\ _check_rail_collision(s))
                => pending_cleared_window_kept(s, r)

\* the hands went back to center on this tick, clearing the grind trick
\* that was pending in this window
C18_PendingCleared ==
    /\ self.in_grind_window
    /\ self.hands = CENTER
    /\ "cancel_trick" \in self.emitted
    /\ ~self.holding_grind_trick
    /\ self.grind_hold_start_time > self.grind_window_start_time

\* how much shorter or longer than RailFrameMs a frame may last
FrameJitterMs == 10

RailFrameDurations ==
    {RailFrameMs - FrameJitterMs, RailFrameMs, RailFrameMs + FrameJitterMs}

\* when a frame that starts dt after the last one reaches
\* _update_airborne_state
after_detection(dt, keys) ==
    LET s1 == _update_keyboard_controls(
                  _handle_events(_update_time([self EXCEPT !.emitted = {}],
                                              get_ticks + dt), keys))
    IN  _update_trick_detection(s1, s1._current_time)

\* the tick that takes s to r exits the grind by a manual exit exactly when
\* the grind has lasted min_grind_duration
manual_exit_at_min_duration(s, r) ==
    IF s._current_time - s.grind_start_time >= min_grind_duration
    THEN /\ "manual" \in r.emitted
         /\ ~r.grinding
         /\ ~r.airborne
    ELSE /\ r.grinding
         /\ r.airborne
         /\ "manual" \notin r.emitted
         /\ "landed" \notin r.emitted

\* C19 as stated: while grinding with the rail-end check false, both hands
\* at center exit the grind exactly when it has lasted min_grind_duration.
C19_ManualExitAtMinDuration ==
    \A dt \in RailFrameDurations, keys \in RailKeySnapshots :
        LET s == after_detection(dt, keys)
            r == _update_airborne_state(s)
        IN  (s.grinding /\ ~_check_rail_end(s) /\ s.hands = CENTER)
                => manual_exit_at_min_duration(s, r)

\* C19: while grinding with a rail near the skater and the rail-end check
\* false, both hands at center exit the grind (reason manual) exactly when
\* it has lasted min_grind_duration.
C19_ManualExitAtMinDurationOnRail ==
    \A dt \in RailFrameDurations, keys \in RailKeySnapshots :
        LET s == after_detection(dt, keys)
            r == _update_airborne_state(s)
        IN  (/\ s.grinding
             /\ _check_rail_collision(s)
             /\ ~_check_rail_end(s)
             /\ s.hands = CENTER)
                => manual_exit_at_min_duration(s, r)

\* a manual exit on the tick the grind has lasted exactly min_grind_duration
C19_ExitAtThreshold ==
    /\ "manual" \in self.emitted
    /\ self._current_time - self.grind_start_time = min_grind_duration
    /\ ~self.airborne

\* C20: while grinding, a tick on which the rail-end check is true exits
\* the grind with reason rail_end, whatever the hands and the elapsed
\* grind time, also when the manual exit condition holds too.
C20_RailEndExits ==
    \A dt \in RailFrameDurations, keys \in RailKeySnapshots :
        LET s == after_detection(dt, keys)
            r == _update_airborne_state(s)
        IN  (s.grinding /\ _check_rail_end(s)) =>
                /\ "rail_end" \in r.emitted
                /\ "manual" \notin r.emitted
                /\ ~r.grinding
                /\ ~r.airborne

\* the rail end ended a grind on a tick with the hands at center and the
\* minimum grind duration over
C20_RailEndBeforeManual ==
    /\ "rail_end" \in self.emitted
    /\ self.hands = CENTER
    /\ self._current_time - self.grind_start_time >= min_grind_duration
    /\ ~self.airborne

\* C21: a grind ends only through _exit_grind: a tick that takes the board
\* out of a grind exits with reason rail_end or manual, and a manual exit
\* comes min_grind_duration or more after the grind began.
C21_GrindEndsByExit ==
    [][(self.grinding /\ ~self'.grinding) =>
          /\ "rail_end" \in self'.emitted \/ "manual" \in self'.emitted
          /\ "manual" \in self'.emitted =>
                 self'._current_time - self.grind_start_time >= min_grind_duration]_vars

\* C22: the tick that ends a grind (rail_end or manual) lands the board
\* with the land sound and without the success chime.
C22_GrindExitLandOnly ==
    ("rail_end" \in self.emitted \/ "manual" \in self.emitted) =>
        /\ ~self.airborne
        /\ "land" \in self.emitted
        /\ "success" \notin self.emitted
        /\ "fail" \notin self.emitted

\* the state a landing leaves: on the ground, no grind, no grind window, no
\* pending grind trick, the catch and death flags cleared, no animation,
\* nominal forward speed, the displayed angle (0,0)
landed_state(s) ==
    /\ ~s.airborne
    /\ ~s.grinding
    /\ ~s.in_grind_window
    /\ s.pending_grind_trick = None
    /\ ~s.catch_required
    /\ ~s.catch_attempted
    /\ ~s.catch_success
    /\ ~s.dead
    /\ s.current_animation = None
    /\ s.animation_frame = 0
    /\ ~s.animation_completed
    /\ s.move_speed = move_speed_nominal
    /\ s.angle = <<0, 0>>

\* C23: a tick on which the board lands, by whatever path, ends in the
\* landed state; so does _land_board called in the airborne update of the
\* next tick.
C23_LandingResets ==
    /\ "landed" \in self.emitted => landed_state(self)
    /\ \A keys \in RailKeySnapshots :
           LET s == rail_at_update_airborne_state(keys)
           IN  s.airborne => landed_state(_land_board(s))

\* the board landed on this tick at the end of the death sequence, and
\* moves again
C23_LandedFromDeath ==
    /\ "death_sequence_complete" \in self.emitted
    /\ "landed" \in self.emitted
    /\ landed_state(self)

\* C24: an animation is set only while the board is airborne and not
\* grinding, and the tick that commits a grind leaves no animation.
C24_AnimationOnlyInFlight ==
    /\ self.current_animation # None => (self.airborne /\ ~self.grinding)
    /\ \A keys \in RailKeySnapshots :
           LET s == rail_at_update_airborne_state(keys)
               r == _update_airborne_state(s)
           IN  (r.grinding /\ ~s.grinding) =>
                   /\ r.current_animation = None
                   /\ r.animation_frame = 0
                   /\ ~r.animation_completed

\* a grind was committed on this tick in the flight of an animated trick
C24_GrindClearedAnimation ==
    /\ "grind_sound" \in self.emitted
    /\ self.grinding
    /\ self.current_trick_name \in animation_maps
    /\ self.current_animation = None

(***************************************************************************)
(* A flight of any trick on an object whose Kickflip metadata file gives   *)
(* any frame count: the trick starts at once and the frames follow until  *)
(* the board has landed, the Kickflip keys held or released.               *)
(***************************************************************************)
\* the clock value after which no further frame is explored
AnimationMaxTime == 7500

AnimationKeySnapshots == {Pressed({}), Pressed({"a", "k"})}

InitAnimation ==
    /\ \E n \in 0..MaxFrames :
           self = [InitSelf EXCEPT !.animation_metadata =
                                       [t \in {"Kickflip"} |-> [frames |-> n]]]
    /\ get_ticks = StartupMs
    /\ held_ms = 0
    /\ flights_in_hold = 0
    /\ flights_started = 0
    /\ ground_frames = 0
    /\ window_frames = 0
    /\ grind_frames = 0
    /\ rails_moved_at = 0
    /\ rendered = sprite_request(InitSelf.angle[1], InitSelf.angle[2])

FirstTrick(i) == flights_started = 0 /\ StartTrick(i)

AnimationFrame(keys) ==
    /\ self.airborne
    /\ get_ticks + RailFrameMs <= AnimationMaxTime
    /\ Iteration(RailFrameMs, keys, rail_spawn_interval_max)

NextAnimation ==
    \/ \E i \in DOMAIN trick_map : FirstTrick(i)
    \/ \E keys \in AnimationKeySnapshots : AnimationFrame(keys)

SpecAnimation == InitAnimation /\ [][NextAnimation]_vars

\* the number of frames of the animation of s
total_frames(s) == s.animation_metadata[s.current_animation].frames

\* the object with the loop flag of its animation set to flag
with_loop_flag(s, flag) ==
    [s EXCEPT !.animation_loops = (s.current_animation :> flag)]

\* C25: the frame index of an animation of total_frames >= 1 frames is
\* always in 0..total_frames-1; an advance past the last frame wraps to 0
\* when the animation loops, and stays on total_frames-1 and marks the
\* animation completed when its loop flag is false.
C25_FrameIndexInRange ==
    /\ (/\ self.current_animation \in DOMAIN self.animation_metadata
        /\ total_frames(self) >= 1)
       => (0 <= self.animation_frame /\ self.animation_frame < total_frames(self))
    /\ \A keys \in AnimationKeySnapshots, flag \in BOOLEAN :
           LET s0 == after_detection(RailFrameMs, keys)
               s == with_loop_flag(s0, flag)
               r == _update_animation(s)
           IN  (/\ s0.airborne
                /\ s0.current_animation \in DOMAIN s0.animation_metadata
                /\ total_frames(s0) >= 1
                /\ r # s)
               => IF s.animation_frame + 1 < total_frames(s)
                  THEN /\ r.animation_frame = s.animation_frame + 1
                       /\ ~r.animation_completed
                  ELSE IF flag
                  THEN /\ r.animation_frame = 0
                       /\ ~r.animation_completed
                  ELSE /\ r.animation_frame = total_frames(s) - 1
                       /\ r.animation_completed

\* the animation wrapped from its last frame to frame 0 on this tick
C25_Wrapped ==
    /\ self.airborne
    /\ self.current_animation \in DOMAIN self.animation_metadata
    /\ total_frames(self) >= 2
    /\ self.animation_frame = 0
    /\ self.animation_timer = self._current_time
    /\ "pop" \notin self.emitted

(***************************************************************************)
(* The rail field on several displays and rail images: the player idles    *)
(* while rails spawn, approach and leave; at one moment the player may     *)
(* hold the Kickflip combination and release it as the catch window opens, *)
(* which misses the catch.                                                 *)
(***************************************************************************)
\* the clock value after which no further frame is explored
FieldMaxTime == 12500
\* the frame at which the player may begin to hold the combination
FieldHoldFrame == 112

\* display sizes and scaled rail images of the explored environments
FieldEnvironments ==
    { [display |-> [width |-> 1000, height |-> 600],
       rail_image |-> [width |-> 50, height |-> 20]],
      [display |-> [width |-> display_width, height |-> display_height],
       rail_image |-> [width |-> rail_image_width, height |-> rail_image_height]],
      [display |-> [width |-> display_width, height |-> display_height],
       rail_image |-> [width |-> rail_image_width, height |-> 238]],
      [display |-> [width |-> display_width, height |-> display_height],
       rail_image |-> [width |-> rail_image_width, height |-> 240]] }

InitField ==
    /\ \E env \in FieldEnvironments :
           self = __init__(env.display, env.rail_image)
    /\ get_ticks = StartupMs
    /\ held_ms = 0
    /\ flights_in_hold = 0
    /\ flights_started = 0
    /\ ground_frames = 0
    /\ window_frames = 0
    /\ grind_frames = 0
    /\ rails_moved_at = 0
    /\ rendered = sprite_request(InitSelf.angle[1], InitSelf.angle[2])

\* the keys the next frame may read
FieldKeys ==
    IF frames_run < FieldHoldFrame THEN {Pressed({})}
    ELSE IF frames_run = FieldHoldFrame THEN {Pressed({}), Pressed({"a", "k"})}
    ELSE IF self.hands = CENTER THEN {Pressed({})}
    ELSE IF self.airborne /\ get_ticks + RailFrameMs >= self.catch_window_start
    THEN {Pressed({})}
    ELSE {Pressed({"a", "k"})}

FieldFrame(keys, draw) ==
    /\ get_ticks + RailFrameMs <= FieldMaxTime
    /\ keys \in FieldKeys
    /\ Iteration(RailFrameMs, keys, draw)

NextField ==
    \E keys \in AnimationKeySnapshots, draw \in SpawnDraws : FieldFrame(keys, draw)

SpecField == InitField /\ [][NextField]_vars

\* when the next frame of the rail field reaches _update_rails
field_at_update_rails(keys) == at_update_rails(self, get_ticks + RailFrameMs, keys)

\* the rail at its position after one advancement of the object s
advanced(s, rail) == [rail EXCEPT !.x = @ - s.move_speed]

\* the rail's leading x plus 6 times its width is below 0
off_screen(rail) == rail.x + 6 * rail.width < 0

\* C26: no rail with x + 6*width < 0 is left in the list; an advancement
\* removes exactly the rails it takes to x + 6*width < 0 and keeps the
\* others, moved; a rail spawned at x=1000 with width 50 is found at
\* x = 1000 - 30*n for n = 0..43 only.
C26_RailRemovedWhenOffScreen ==
    /\ \A i \in DOMAIN self.rails : ~off_screen(self.rails[i])
    /\ \A keys \in AnimationKeySnapshots :
           LET s == field_at_update_rails(keys)
               r == _update_rails(s)
               kept == {i \in DOMAIN s.rails : ~off_screen(advanced(s, s.rails[i]))}
           IN  r.rails # s.rails =>
                   /\ Len(r.rails) = Cardinality(kept)
                   /\ \A i \in kept : \E j \in DOMAIN r.rails :
                          r.rails[j] = advanced(s, s.rails[i])
    /\ (self.display_width = 1000 /\ self.rail_image.width = 50) =>
           \A i \in DOMAIN self.rails :
               \E n \in 0..43 : self.rails[i].x = 1000 - 30 * n

\* a rail spawned at x=1000 with width 50 after its 43rd advancement
C26_After43Advancements ==
    /\ self.display_width = 1000
    /\ \E i \in DOMAIN self.rails :
           /\ self.rails[i].width = 50
           /\ self.rails[i].x = 1000 - 30 * 43

\* C27: two consecutive advancements of the rail positions are at least
\* move_update_interval apart.
C27_RailsAdvanceOnCadence ==
    [][(rails_moved_at' # rails_moved_at /\ rails_moved_at > 0) =>
          rails_moved_at' - rails_moved_at >= move_update_interval]_vars

HandsMaxFrames == 1

\* every state of the eight keys
AllKeySnapshots == [KeyNames -> BOOLEAN]

HandsFrame(keys) ==
    /\ get_ticks + FrameMs <= StartupMs + HandsMaxFrames * FrameMs
    /\ Iteration(FrameMs, keys, rail_spawn_interval_max)

NextHands == \E keys \in AllKeySnapshots : HandsFrame(keys)

SpecHands == Init /\ [][NextHands]_vars

\* C30: each hand's region follows the priority table for the states of
\* its four keys (up, left, down, right): up; else down with left gives
\* left; else down; else left; else right; else center.  Down+left gives
\* left while down+right gives down.
C30_HandRegionTable ==
    LET kp == self.keys_pressed
        region(up, left, down, right) ==
            IF up THEN "up"
            ELSE IF down /\ left THEN "left"
            ELSE IF down THEN "down"
            ELSE IF left THEN "left"
            ELSE IF right THEN "right"
            ELSE "center"
    IN  /\ self.hands[1] = region(kp["w"], kp["a"], kp["s"], kp["d"])
        /\ self.hands[2] = region(kp["i"], kp["j"], kp["k"], kp["l"])
        /\ (~kp["w"] /\ kp["s"] /\ kp["a"]) => self.hands[1] = "left"
        /\ (~kp["w"] /\ kp["s"] /\ kp["d"] /\ ~kp["a"]) => self.hands[1] = "down"
        /\ (~kp["i"] /\ kp["k"] /\ kp["j"]) => self.hands[2] = "left"
        /\ (~kp["i"] /\ kp["k"] /\ kp["l"] /\ ~kp["j"]) => self.hands[2] = "down"

\* a frame read down+left on the left hand and down+right on the right
C30_DownLeftDownRight ==
    /\ self.keys_pressed = Pressed({"s", "a", "k", "l"})
    /\ self.hands = <<"left", "down">>

(***************************************************************************)
(* The sprite lookup for any angles: render_board is called on the         *)
(* constructed object with angles of the caller's choice.                  *)
(***************************************************************************)
\* the angles go from -MaxAngle to MaxAngle half degrees
MaxAngle == 750

\* shuv angles: every multiple of 2.5 degrees in that range
AngleInputs == { a \in (0 - MaxAngle)..MaxAngle : a % 5 = 0 }

\* flip angles: 0, 7.5 and 355 degrees
FlipInputs == {0, 15, 710}

RenderBoard(shuv_angle, flip_angle) ==
    /\ rendered' = render_board(self, shuv_angle, flip_angle, rendered)
    /\ UNCHANGED <<self, get_ticks, held_ms, flights_in_hold, flights_started,
                   ground_frames, window_frames, grind_frames, rails_moved_at>>

NextAngle ==
    \E shuv_angle \in AngleInputs, flip_angle \in FlipInputs :
        RenderBoard(shuv_angle, flip_angle)

SpecAngle == Init /\ [][NextAngle]_vars

\* C31: the quantized angle is a multiple of 15 and lies in [0, 360), so it
\* never equals 360.
C31_QuantizedInRange ==
    \A i \in 1..2 :
        /\ rendered.angle_key[i] % 15 = 0
        /\ 0 <= rendered.angle_key[i]
        /\ rendered.angle_key[i] < 360

\* C32: an angle halfway between two multiples of 15 (15k + 7.5 after the
\* modulo) is quantized to the higher multiple 15(k + 1).
C32_TiesRoundUp ==
    LET a == rendered.shuv_angle % 720
    IN  a % 30 = 15 => rendered.angle_key[1] = 15 * (a \div 30 + 1)

\* when the frame that starts now (SpecRail) reaches _update_trick_detection
rail_at_trick_detection(keys) ==
    _update_keyboard_controls(
        _handle_events(_update_time([self EXCEPT !.emitted = {}],
                                    get_ticks + RailFrameMs), keys))

\* s holds a non-center combination that matches no aerial trick, and the
\* attempt with that combination began trick_hold_duration ago or earlier
invalid_hold_due(s) ==
    /\ s.hands # CENTER
    /\ s.hands = s.last_hand_combination
    /\ first_match(trick_map, s.hands) = None
    /\ s.trick_start_time > 0
    /\ s._current_time - s.trick_start_time >= trick_hold_duration

\* C33 as stated: whenever a non-center combination that matches no aerial
\* trick has been held for trick_hold_duration, the detector reports an
\* invalid combination and resets to idle.
C33_InvalidHoldAlwaysReported ==
    \A keys \in RailKeySnapshots :
        LET s == rail_at_trick_detection(keys)
            r == _update_trick_detection(s, s._current_time)
        IN  invalid_hold_due(s) =>
                /\ "invalid_combination" \in r.emitted
                /\ r.trick_start_time = 0

\* C33 (amended): when detection runs with grinding false and a non-center
\* combination that matches no aerial trick has been held for
\* trick_hold_duration, the detector reports an invalid combination and
\* resets to idle (trick_start_time = 0); no trick starts and no field
\* other than trick_start_time and last_hand_combination changes, so
\* airborne, catch and animation state are as before.
C33_InvalidHoldReported ==
    \A keys \in RailKeySnapshots :
        LET s == rail_at_trick_detection(keys)
            r == _update_trick_detection(s, s._current_time)
        IN  (~s.grinding /\ invalid_hold_due(s)) =>
                /\ "invalid_combination" \in r.emitted
                /\ r.trick_start_time = 0
                /\ "do_trick" \notin r.emitted
                /\ "pop" \notin r.emitted
                /\ r.airborne = s.airborne
                /\ r.current_trick_name = s.current_trick_name
                /\ fields(r) = fields([s EXCEPT !.trick_start_time = 0])

\* an invalid combination was reported during a flight, after the catch
C33_ReportedInFlight ==
    /\ "invalid_combination" \in self.emitted
    /\ self.trick_start_time = 0
    /\ self.airborne
    /\ self.catch_success
    /\ self.hands # CENTER

\* C34: a frame that lands the board out of a grind window that has lasted
\* grind_window_duration or longer, no grind having been committed, plays
\* the success and land sounds and not the fail sound, as a successful
\* catch with no rail does.
C34_ExpiredWindowLandsAsSuccess ==
    [][(/\ self.in_grind_window
        /\ ~self.grinding
        /\ self'._current_time - self.grind_window_start_time
               >= grind_window_duration
        /\ "grind_sound" \notin self'.emitted
        /\ ~self'.airborne)
       => (/\ "success" \in self'.emitted
           /\ "land" \in self'.emitted
           /\ "fail" \notin self'.emitted)]_vars

\* the board landed on this tick because the grind window had expired
C34_LandedOnExpiry ==
    /\ "grind_window_expired" \in self.emitted
    /\ "landed" \in self.emitted
    /\ "success" \in self.emitted
    /\ "land" \in self.emitted
    /\ ~self.airborne

\* C35: animation_completed becomes true only on a tick on which a
\* non-looping animation reaches its last frame or a successful catch stops
\* the animation; in particular not on a tick with both hands at center
\* before the catch window opens, no catch having been attempted.
C35_CompletedOnlyByEndOrCatch ==
    [][(~self.animation_completed /\ self'.animation_completed)
       => \/ "catch" \in self'.emitted
          \/ /\ self'.current_animation \in DOMAIN self'.animation_loops
             /\ ~self'.animation_loops[self'.current_animation]
             /\ self'.animation_frame = total_frames(self') - 1]_vars

\* C36: the cancel sound is played only on a tick on which the hands have
\* returned to center from a combination held for less than
\* trick_hold_duration; it is never played for a hold that lasted
\* trick_hold_duration or longer.
C36_CancelOnlyForShortHold ==
    [][("cancel_trick" \in self'.emitted)
       => (/\ self'.hands = CENTER
           /\ self.hands # CENTER
           /\ held_ms < trick_hold_duration)]_vars

\* the time from one tick to the next: a frame, or a pause longer than
\* every window of the flight
ClockSteps ==
    { RailFrameMs, grind_window_duration,
      catch_window_delay + catch_window_duration + death_duration }

\* the catch, death, grind-window and grind-session fields
flight_fields(s) ==
    << s.catch_required, s.catch_attempted, s.catch_success,
       s.catch_window_start, s.perfect_catch_frames,
       s.dead, s.death_timer,
       s.in_grind_window, s.grind_window_start_time, s.holding_grind_trick,
       s.pending_grind_trick, s.grind_hold_start_time,
       s.grinding, s.grind_trick, s.grind_start_time >>

\* C37: while the board is on the ground, a tick on which no trick is
\* confirmed changes none of the catch, death, grind-window and
\* grind-session fields, whatever the keys and however far the clock has
\* advanced, and produces no catch, death, grind or landing event.
C37_GroundedTickKeepsFlightFields ==
    ~self.airborne =>
        \A keys \in RailKeySnapshots, dt \in ClockSteps :
            LET r == run_iteration(self, get_ticks + dt, keys,
                                   rail_spawn_interval_max)
            IN  "pop" \notin r.emitted =>
                    /\ flight_fields(r) = flight_fields(self)
                    /\ ~r.airborne
                    /\ r.emitted \cap { "catch", "catch_window_expired", "death",
                                        "death_sequence_complete",
                                        "grind_hold_completed", "grind_sound",
                                        "grind_window_expired", "rail_end",
                                        "manual", "land", "success", "fail",
                                        "landed" } = {}

\* the board is on the ground after a flight with a grind: the catch
\* window, the grind window and the grind have left their start times
\* behind
C37_GroundedWithStaleTimers ==
    /\ ~self.airborne
    /\ self.catch_window_start > 0
    /\ self.grind_window_start_time > 0
    /\ self.grind_start_time > 0
    /\ "manual" \in self.emitted

\* C38: once catch_attempted is true, catch_attempted and catch_success keep
\* their values on every later tick of the flight; a tick that begins after
\* a successful catch brings no death and no fail sound, and a tick that
\* begins after a miss brings no catch and no success chime.
C38_CatchResolvedOnce ==
    [][(self.airborne /\ self.catch_attempted)
       => /\ self'.airborne => /\ self'.catch_attempted
                               /\ self'.catch_success = self.catch_success
                               /\ self'.dead = self.dead
          /\ self.catch_success => /\ ~self'.dead
                                   /\ "death" \notin self'.emitted
                                   /\ "catch_window_expired" \notin self'.emitted
                                   /\ "fail" \notin self'.emitted
          /\ ~self.catch_success => /\ "catch" \notin self'.emitted
                                    /\ "success" \notin self'.emitted]_vars

\* a flight that is past the end of its catch window after a successful
\* catch
C38_CaughtAndPastWindow ==
    /\ self.airborne
    /\ self.catch_attempted
    /\ self.catch_success
    /\ "catch" \notin self.emitted
    /\ self._current_time > self.catch_window_start + catch_window_duration

(***************************************************************************)
(* Flights followed to their landing: the loop of run() keeps iterating.   *)
(***************************************************************************)
\* the clock value after which no further frame is explored
LandingMaxTime == 12000

\* the keys the next frame may read: as in SpecRail before the flight; in
\* the flight the player holds the trick keys until the catch window opens
\* and then lets go of them on any frame, or never; free after the catch
LandingKeys ==
    IF self.airborne /\ ~self.catch_attempted
    THEN IF get_ticks + RailFrameMs < self.catch_window_start
         THEN {Pressed({"a", "k"})}
         ELSE {Pressed({}), Pressed({"a", "k"})}
    ELSE RailKeys

LandingFrame(keys) ==
    /\ get_ticks + RailFrameMs <= LandingMaxTime
    /\ keys \in LandingKeys
    /\ flights_started > 0 => self.airborne
    /\ Iteration(RailFrameMs, keys, rail_spawn_interval_max)

NextLanding == \E keys \in RailKeySnapshots : LandingFrame(keys)

\* the run loop starts another frame: the clock advances by one frame time
LandingTick ==
    /\ get_ticks + RailFrameMs <= LandingMaxTime
    /\ flights_started > 0 => self.airborne
    /\ get_ticks' = get_ticks + RailFrameMs

\* the loop never stops iterating while the game runs
SpecLanding == Init /\ [][NextLanding]_vars /\ WF_get_ticks(LandingTick)

\* C39: every flight eventually lands: whatever the player presses, while
\* the loop keeps ticking with an advancing clock and advancing rails, an
\* airborne board is eventually on the ground again.
C39_FlightEventuallyLands == self.airborne ~> ~self.airborne

\* a flight that went through a grind has ended on the ground
C39_LandedAfterGrind ==
    /\ flights_started > 0
    /\ ~self.airborne
    /\ grind_frames > 0

\* C40: the frame counter advances by at most one frame per tick and only
\* when the time since the last advance is at least animation_speed divided
\* by the multiplier of the trick's class; after a trick starts at frame 0
\* the first advance comes no earlier than one such interval after the time
\* the trick started.
C40_AdvanceNoEarlierThanInterval ==
    [][ self'.current_animation # None /\ self'.animation_timer = get_ticks'
        => LET trick_spin_speed == _get_trick_spin_speed(self'.current_animation)
               started  == "pop" \in self'.emitted
               start    == self'.catch_window_start - catch_window_delay
               since    == IF started \/ self.animation_timer < start
                           THEN start ELSE self.animation_timer
               previous == IF started THEN 0 ELSE self.animation_frame
           IN  /\ self'.animation_frame \in {previous, previous + 1, 0}
               /\ (get_ticks' - since) * trick_spin_speed[1]
                      >= animation_speed * trick_spin_speed[2] ]_vars

====
